---- MODULE Spec2Model ----
(***************************************************************************)
(* Model of subxt's signer/src/ecdsa.rs (ECDSA keypairs: construction from *)
(* secret URIs, hard-junction derivation, signing and verification, the    *)
(* dev accounts) and of codegen/src/fetch_metadata.rs (fetching metadata   *)
(* over the new state_call interface with the legacy one as fallback).     *)
(*                                                                         *)
(* Scaling.  The cryptographic primitives the file calls into are modelled *)
(* by small computable stand-ins of the same shape:                        *)
(*   - a 32-byte secret / digest / junction payload is ONE byte (0..255);  *)
(*   - secp256k1 is the curve y^2 = x^3 + 7 over the field of 211         *)
(*     elements, whose group has prime order 199 (n < p < 2^8 as, for      *)
(*     secp256k1, n < p < 2^256), and recoverable ECDSA is the same        *)
(*     algorithm over that curve (deterministic nonce, low-S               *)
(*     normalisation, recovery id, compressed points);                     *)
(*   - blake2_256 is a one-byte iterated hash of the input bytes;          *)
(*   - a BIP-39 mnemonic is three words of a four-word list, the last one  *)
(*     carrying the checksum.                                              *)
(***************************************************************************)
EXTENDS Integers, Sequences, FiniteSets, TLC

\* ----------------------------------------------------------------- state

VARIABLES
    pc,         \* "idle": the caller is about to call; "returned": a call returned
    call,       \* the last call: its operation, arguments and return value
    held_uri,   \* the secret URI a caller derives from repeatedly
    seen,       \* what from_uri(held_uri) returned the first time, and what followed
    handed_sig, \* the signature bytes a verifier is handed
    signer,     \* the keypair that signed them
    signed,     \* the message it signed
    tamper,     \* whether a bit of handed_sig was flipped since, and which
    receiver,   \* the Keypair object a caller owns and calls methods on
    issued,     \* the (digest, signature) pairs receiver.sign_prehashed returned
    registry,   \* dev accounts: the once-cell of each accessor
    threads,    \* dev accounts: where each calling thread is in an accessor
    fetch,      \* fetch_metadata: the position and locals of the running fetch
    wire        \* fetch_metadata: the RPC requests sent so far, in order

\* the variables of the dev registry, of a held receiver and of fetch_metadata
apart == <<receiver, issued, registry, threads, fetch, wire>>

vars == <<pc, call, held_uri, seen, handed_sig, signer, signed, tamper, apart>>

\* ------------------------------------------------------------------ bytes

Byte == 0..255

RECURSIVE Pow2(_)
Pow2(i) == IF i = 0 THEN 1 ELSE 2 * Pow2(i - 1)

\* bit i (0 = least significant) of byte b
BitOf(b, i) == (b \div Pow2(i)) % 2

\* byte b with bit i inverted
FlipBitOfByte(b, i) == IF BitOf(b, i) = 1 THEN b - Pow2(i) ELSE b + Pow2(i)

\* ------------------------------------------------- sp_crypto_hashing

\* one absorption step of the stand-in hash: a bijection of the state for a
\* fixed input byte, and injective in the input byte for a fixed state
Absorb(h, b) ==
    LET x == ((h + b + 1) * 167 + 13) % 256
    IN  (x * (2 * x + 1)) % 256

RECURSIVE AbsorbAll(_, _)
AbsorbAll(h, data) ==
    IF data = <<>> THEN h ELSE AbsorbAll(Absorb(h, Head(data)), Tail(data))

\* sp_crypto_hashing::blake2_256: bytes -> digest (one byte stands for 32)
blake2_256(data) == Absorb(AbsorbAll(106, data), Len(data))

\* ------------------------------------------------------------ secp256k1

\* the curve y^2 = x^3 + CurveB over the field of FieldPrime elements; its group
\* has the prime order CurveOrder and is generated by (GeneratorX, GeneratorY)
FieldPrime == 211
CurveOrder == 199
CurveB     == 7
GeneratorX == 3
GeneratorY == 33

RECURSIVE ModExp(_, _, _)
ModExp(b, e, m) ==
    IF e = 0 THEN 1 % m
    ELSE LET h  == ModExp(b, e \div 2, m)
             sq == (h * h) % m
         IN  IF e % 2 = 1 THEN (sq * b) % m ELSE sq

\* inverses modulo the field prime and modulo the group order (both prime)
InvModField == [a \in 1..(FieldPrime - 1) |-> ModExp(a, FieldPrime - 2, FieldPrime)]
InvModOrder == [a \in 1..(CurveOrder - 1) |-> ModExp(a, CurveOrder - 2, CurveOrder)]

Infinity  == [inf |-> TRUE, x |-> 0, y |-> 0]
Affine(x, y) == [inf |-> FALSE, x |-> x, y |-> y]
GeneratorPoint == Affine(GeneratorX, GeneratorY)

OnCurve(P) ==
    P.inf \/ (P.y * P.y) % FieldPrime = (P.x * P.x * P.x + CurveB) % FieldPrime

\* the chord-and-tangent group law
PointAdd(P, Q) ==
    IF P.inf THEN Q
    ELSE IF Q.inf THEN P
    ELSE IF P.x = Q.x /\ (P.y + Q.y) % FieldPrime = 0 THEN Infinity
    ELSE LET num == IF P.x = Q.x THEN (3 * P.x * P.x) % FieldPrime
                    ELSE (Q.y - P.y) % FieldPrime
             den == IF P.x = Q.x THEN (2 * P.y) % FieldPrime
                    ELSE (Q.x - P.x) % FieldPrime
             l   == (num * InvModField[den]) % FieldPrime
             x3  == (l * l - P.x - Q.x) % FieldPrime
             y3  == (l * (P.x - x3) - P.y) % FieldPrime
         IN  Affine(x3, y3)

RECURSIVE ScalarMul(_, _)
ScalarMul(k, P) ==
    IF k = 0 THEN Infinity
    ELSE LET h == ScalarMul(k \div 2, P)
             d == PointAdd(h, h)
         IN  IF k % 2 = 1 THEN PointAdd(d, P) ELSE d

\* multiples of the generator, k * G for k in 0 .. n-1
BaseMulTable == [k \in 0..(CurveOrder - 1) |-> ScalarMul(k, GeneratorPoint)]
ScalarBaseMul(k) == BaseMulTable[k % CurveOrder]

\* SecretKey::from_slice: the scalar must be in 1 .. n-1
ValidScalar(b) == b # 0 /\ b < CurveOrder

\* PublicKey::serialize: the compressed point, <<0x02 | parity of y, x>>
SerializePoint(P) == <<2 + (P.y % 2), P.x>>

\* secp256k1::PublicKey::from_slice on a compressed key: the prefix must be 2 or 3
\* and x must be a field element with x^3 + b a square; y is the square root of
\* the prefix's parity.  [ok, point]
ParsePoint(bytes) ==
    LET prefix == bytes[1]
        x      == bytes[2]
        rhs    == (x * x * x + CurveB) % FieldPrime
        root   == ModExp(rhs, (FieldPrime + 1) \div 4, FieldPrime)
        y      == IF root % 2 = prefix % 2 THEN root ELSE (FieldPrime - root) % FieldPrime
    IN  IF /\ prefix \in {2, 3}
           /\ x < FieldPrime
           /\ (root * root) % FieldPrime = rhs
        THEN [ok |-> TRUE, point |-> Affine(x, y)]
        ELSE [ok |-> FALSE, point |-> Infinity]

\* Message::from_digest_slice followed by the reduction of the digest modulo n
DigestScalar(digest) == digest % CurveOrder

\* the deterministic nonce (RFC 6979 in libsecp256k1): a function of the key, the
\* digest and the retry counter alone
NonceBytes(x, digest, counter) == AbsorbAll(54, <<x, digest, counter>>)

\* Secp256k1::sign_ecdsa_recoverable: [r, s, recid] with s in the lower half
RECURSIVE sign_ecdsa_recoverable(_, _, _)
sign_ecdsa_recoverable(digest, x, counter) ==
    LET k  == NonceBytes(x, digest, counter)
        z  == DigestScalar(digest)
        R  == ScalarBaseMul(k)
        r  == R.x % CurveOrder
        s  == IF ValidScalar(k) THEN (InvModOrder[k] * (z + r * x)) % CurveOrder ELSE 0
        id == (R.y % 2) + (IF R.x >= CurveOrder THEN 2 ELSE 0)
        high == s > CurveOrder \div 2
    IN  IF ~ValidScalar(k) \/ r = 0 \/ s = 0
        THEN sign_ecdsa_recoverable(digest, x, counter + 1)
        ELSE [r     |-> r,
              s     |-> IF high THEN CurveOrder - s ELSE s,
              recid |-> IF high THEN (IF id % 2 = 1 THEN id - 1 ELSE id + 1) ELSE id]

\* secp256k1::ecdsa::Signature::from_compact: r and s must be below n.  [ok, r, s]
from_compact(bytes) ==
    IF bytes[1] < CurveOrder /\ bytes[2] < CurveOrder
    THEN [ok |-> TRUE, r |-> bytes[1], s |-> bytes[2]]
    ELSE [ok |-> FALSE, r |-> 0, s |-> 0]

\* Secp256k1::verify_ecdsa(..).is_ok(): s low, r and s non-zero, and
\* x(z/s * G + r/s * Q) mod n = r
verify_ecdsa(digest, sig, Q) ==
    /\ sig.r # 0
    /\ sig.s # 0
    /\ sig.s <= CurveOrder \div 2
    /\ LET w  == InvModOrder[sig.s]
           u1 == (DigestScalar(digest) * w) % CurveOrder
           u2 == (sig.r * w) % CurveOrder
           X  == PointAdd(ScalarBaseMul(u1), ScalarMul(u2, Q))
       IN  ~X.inf /\ X.x % CurveOrder = sig.r

\* --------------------------------------------------------------- results

\* Result<Keypair, Error>; Error is one of InvalidSeed, SoftJunction, Phrase, Hex
NoKeypair == [secret |-> 0, point |-> Infinity]
Ok(keypair) == [ok |-> TRUE, key |-> keypair, err |-> "None"]
Err(e) == [ok |-> FALSE, key |-> NoKeypair, err |-> e]

\* Option<&str>
None == [some |-> FALSE, val |-> <<>>]
Some(v) == [some |-> TRUE, val |-> v]

\* ------------------------------------------------------------------- hex

HexChars == <<"0", "1", "2", "3", "4", "5", "6", "7", "8", "9",
              "a", "b", "c", "d", "e", "f", "A", "B", "C", "D", "E", "F">>

IsHexChar(c) == \E i \in DOMAIN HexChars : HexChars[i] = c

\* the value of one hex digit, either case
HexVal(c) ==
    LET i == CHOOSE j \in DOMAIN HexChars : HexChars[j] = c
    IN  IF i <= 16 THEN i - 1 ELSE i - 7

\* the number of secret bytes (32 in the source; one byte here stands for them)
SECRET_KEY_LENGTH == 1

\* <SecretKeyBytes as FromHex>::from_hex: an even number of characters, exactly
\* two per byte of the array, every one a hex digit.  [ok, val]
from_hex(chars) ==
    IF Len(chars) % 2 # 0 THEN [ok |-> FALSE, val |-> 0]
    ELSE IF Len(chars) \div 2 # SECRET_KEY_LENGTH THEN [ok |-> FALSE, val |-> 0]
    ELSE IF \E i \in DOMAIN chars : ~IsHexChar(chars[i]) THEN [ok |-> FALSE, val |-> 0]
    ELSE [ok |-> TRUE, val |-> HexVal(chars[1]) * 16 + HexVal(chars[2])]

\* str::strip_prefix("0x"): [some, val]
strip_prefix_0x(chars) ==
    IF Len(chars) >= 2 /\ chars[1] = "0" /\ chars[2] = "x"
    THEN Some(SubSeq(chars, 3, Len(chars)))
    ELSE None

\* ----------------------------------------------------------------- bip39

WordList == << <<"a", "c", "t">>, <<"a", "d", "d">>, <<"a", "g", "e">>, <<"a", "i", "m">> >>
MnemonicWords == 3

\* the words of a phrase, split at spaces
RECURSIVE SplitWords(_, _, _)
SplitWords(chars, word, words) ==
    IF chars = <<>> THEN (IF word = <<>> THEN words ELSE Append(words, word))
    ELSE IF Head(chars) = " "
         THEN SplitWords(Tail(chars), <<>>, IF word = <<>> THEN words ELSE Append(words, word))
         ELSE SplitWords(Tail(chars), Append(word, Head(chars)), words)

WordIndex(w) == (CHOOSE i \in DOMAIN WordList : WordList[i] = w) - 1

\* the checksum bits of an entropy: the leading bits of its hash
EntropyChecksum(entropy) == AbsorbAll(201, entropy) % Len(WordList)

\* bip39::Mnemonic::from_str: the word count, every word of the list, and the
\* checksum carried by the last word.  [ok, entropy]
Mnemonic_from_str(chars) ==
    LET words == SplitWords(chars, <<>>, <<>>)
        known == \A i \in DOMAIN words : \E j \in DOMAIN WordList : WordList[j] = words[i]
        entropy == <<WordIndex(words[1]) * Len(WordList) + WordIndex(words[2])>>
    IN  IF Len(words) # MnemonicWords \/ ~known THEN [ok |-> FALSE, entropy |-> <<>>]
        ELSE IF WordIndex(words[3]) # EntropyChecksum(entropy)
             THEN [ok |-> FALSE, entropy |-> <<>>]
             ELSE [ok |-> TRUE, entropy |-> entropy]

\* crate::crypto::seed_from_entropy: the mnemonic-to-seed stretching of the entropy
\* salted with "mnemonic" and the password; a longer seed than the secret key
\* (two bytes stand for the 64).  [some, val]
MnemonicSalt == <<109, 110, 101, 109, 111, 110, 105, 99>>
seed_from_entropy(entropy, password) ==
    IF Len(entropy) # 1 THEN None
    ELSE LET h1 == AbsorbAll(17, entropy \o MnemonicSalt \o password)
             h2 == AbsorbAll(h1, <<2>> \o entropy \o MnemonicSalt \o password)
         IN  Some(<<h1, h2>>)

\* --------------------------------------------------------------- Keypair

\* the secret compared with the field prime instead of the group order
from_secret_key_below_field(secret_key) ==
    IF secret_key # 0 /\ secret_key < FieldPrime
    THEN Ok([secret |-> secret_key, point |-> ScalarBaseMul(secret_key)])
    ELSE Err("InvalidSeed")

\* Keypair::from_secret_key
from_secret_key(secret_key) ==
    IF ValidScalar(secret_key)
    THEN Ok([secret |-> secret_key, point |-> ScalarBaseMul(secret_key)])
    ELSE Err("InvalidSeed")

\* Keypair::from_phrase; mnemonic is a parsed bip39::Mnemonic (its entropy),
\* password an Option
from_phrase(mnemonic, password) ==
    LET big_seed == seed_from_entropy(mnemonic, IF password.some THEN password.val ELSE <<>>)
    IN  IF ~big_seed.some THEN Err("InvalidSeed")
        ELSE from_secret_key(SubSeq(big_seed.val, 1, SECRET_KEY_LENGTH)[1])

\* the SCALE encoding of ("Secp256k1HDKD", acc, junction_bytes): the compact
\* length of the string, its bytes, then the two byte arrays as they are
HDKD_TAG == <<83, 101, 99, 112, 50, 53, 54, 107, 49, 72, 68, 75, 68>>
\* the encoding without the domain tag
EncodeUntagged(tag, acc, junction_bytes) == <<acc>> \o <<junction_bytes>>

EncodeHDKD(tag, acc, junction_bytes) ==
    <<4 * Len(tag)>> \o tag \o <<acc>> \o <<junction_bytes>>

Hard(b) == [kind |-> "Hard", bytes |-> b]
Soft(b) == [kind |-> "Soft", bytes |-> b]

\* derive with a soft junction hardened instead of refused
RECURSIVE derive_loop_hardening(_, _, _)
derive_loop_hardening(acc, junctions, consumed) ==
    IF junctions = <<>>
    THEN [ret |-> from_secret_key(acc), consumed |-> consumed]
    ELSE derive_loop_hardening(blake2_256(EncodeHDKD(HDKD_TAG, acc, Head(junctions).bytes)),
                               Tail(junctions), consumed + 1)

\* derive with the junctions hashed on their own and added to the accumulator
RECURSIVE derive_loop_unchained(_, _, _)
derive_loop_unchained(acc, junctions, consumed) ==
    IF junctions = <<>>
    THEN [ret |-> from_secret_key(acc), consumed |-> consumed]
    ELSE IF Head(junctions).kind = "Soft"
         THEN [ret |-> Err("SoftJunction"), consumed |-> consumed + 1]
         ELSE derive_loop_unchained(
                  (acc + blake2_256(EncodeHDKD(HDKD_TAG, 0, Head(junctions).bytes))) % 256,
                  Tail(junctions), consumed + 1)

\* derive that folds every junction and reports a soft one only at the end
RECURSIVE derive_loop_late_error(_, _, _, _)
derive_loop_late_error(acc, junctions, consumed, soft) ==
    IF junctions = <<>>
    THEN [ret |-> IF soft THEN Err("SoftJunction") ELSE from_secret_key(acc),
          consumed |-> consumed]
    ELSE derive_loop_late_error(
             blake2_256(EncodeHDKD(HDKD_TAG, acc, Head(junctions).bytes)),
             Tail(junctions), consumed + 1, soft \/ Head(junctions).kind = "Soft")
derive_loop_checked_last(acc, junctions, consumed) ==
    derive_loop_late_error(acc, junctions, consumed, FALSE)

\* the loop of Keypair::derive over the junctions not yet taken from the iterator:
\* the result, and how many junctions were taken (consumed)
\* the accumulator is checked as a secret key after every junction
RECURSIVE derive_loop_checks_each(_, _, _)
derive_loop_checks_each(acc, junctions, consumed) ==
    IF junctions = <<>> THEN [ret |-> from_secret_key(acc), consumed |-> consumed]
    ELSE IF Head(junctions).kind = "Soft"
         THEN [ret |-> Err("SoftJunction"), consumed |-> consumed + 1]
         ELSE LET next == blake2_256(EncodeHDKD(HDKD_TAG, acc, Head(junctions).bytes))
              IN  IF ~from_secret_key(next).ok
                  THEN [ret |-> Err("InvalidSeed"), consumed |-> consumed + 1]
                  ELSE derive_loop_checks_each(next, Tail(junctions), consumed + 1)

RECURSIVE derive_loop(_, _, _)
derive_loop(acc, junctions, consumed) ==
    IF junctions = <<>>
    THEN [ret |-> from_secret_key(acc), consumed |-> consumed]
    ELSE IF Head(junctions).kind = "Soft"
         THEN [ret |-> Err("SoftJunction"), consumed |-> consumed + 1]
         ELSE derive_loop(blake2_256(EncodeHDKD(HDKD_TAG, acc, Head(junctions).bytes)),
                          Tail(junctions), consumed + 1)

\* Keypair::secret_key
secret_key(keypair) == keypair.secret

\* Keypair::public_key
public_key(keypair) == SerializePoint(keypair.point)

\* derive that refuses an empty junction list
derive_nonempty(keypair, junctions) ==
    IF junctions = <<>> THEN Err("InvalidSeed")
    ELSE derive_loop(keypair.secret, junctions, 0).ret

\* Keypair::derive
derive(keypair, junctions) == derive_loop(secret_key(keypair), junctions, 0).ret

\* from_uri with the root key kept in a static once one was built: later calls
\* start from the key an earlier call returned (reads the variable seen)
from_uri_stale_root(u) ==
    LET hex_str == strip_prefix_0x(u.phrase)
        seed    == from_hex(hex_str.val)
        phrase  == Mnemonic_from_str(u.phrase)
        key     == IF hex_str.some
                   THEN (IF seed.ok THEN from_secret_key(seed.val) ELSE Err("Hex"))
                   ELSE (IF phrase.ok THEN from_phrase(phrase.entropy, u.password)
                         ELSE Err("Phrase"))
        root    == IF seen.ret.ok THEN seen.ret ELSE key
    IN  IF root.ok THEN derive_loop(root.key.secret, u.junctions, 0).ret ELSE root

\* from_uri with the password mixed into a hex seed as well
from_uri_salted_hex(uri) ==
    LET hex_str == strip_prefix_0x(uri.phrase)
        seed    == from_hex(hex_str.val)
        salted  == IF uri.password.some THEN AbsorbAll(seed.val, uri.password.val)
                   ELSE seed.val
        phrase  == Mnemonic_from_str(uri.phrase)
        key     == IF hex_str.some
                   THEN (IF seed.ok THEN from_secret_key(salted) ELSE Err("Hex"))
                   ELSE (IF phrase.ok THEN from_phrase(phrase.entropy, uri.password)
                         ELSE Err("Phrase"))
    IN  IF key.ok THEN derive_loop(key.key.secret, uri.junctions, 0).ret ELSE key

\* the junctions are looked at before the root key is built
from_uri_junctions_first(uri) ==
    LET hex_str == strip_prefix_0x(uri.phrase)
        seed    == from_hex(hex_str.val)
        phrase  == Mnemonic_from_str(uri.phrase)
        key     == IF hex_str.some
                   THEN (IF seed.ok THEN from_secret_key(seed.val) ELSE Err("Hex"))
                   ELSE (IF phrase.ok THEN from_phrase(phrase.entropy, uri.password)
                         ELSE Err("Phrase"))
    IN  IF \E i \in DOMAIN uri.junctions : uri.junctions[i].kind = "Soft"
        THEN Err("SoftJunction")
        ELSE IF key.ok THEN derive_loop(key.key.secret, uri.junctions, 0).ret ELSE key

\* Keypair::from_uri; uri is [phrase, junctions, password]
from_uri(uri) ==
    LET hex_str == strip_prefix_0x(uri.phrase)
        seed    == from_hex(hex_str.val)
        phrase  == Mnemonic_from_str(uri.phrase)
        key     == IF hex_str.some
                   THEN (IF seed.ok THEN from_secret_key(seed.val) ELSE Err("Hex"))
                   ELSE (IF phrase.ok THEN from_phrase(phrase.entropy, uri.password)
                         ELSE Err("Phrase"))
    IN  IF key.ok THEN derive(key.key, uri.junctions) ELSE key

\* a nonce that is fresh for every signature the key issues
internal_sign_fresh_nonce(secret, digest) ==
    LET recsig == sign_ecdsa_recoverable(digest, secret, Cardinality(issued))
    IN  <<recsig.r, recsig.s, recsig.recid % 256>>

\* internal::sign: the compact signature followed by the recovery id
internal_sign(secret, digest) ==
    LET recsig == sign_ecdsa_recoverable(digest, secret, 0)
    IN  <<recsig.r, recsig.s, recsig.recid % 256>>

\* Keypair::sign_prehashed
sign_prehashed(keypair, message_hash) == internal_sign(keypair.secret, message_hash)

\* sign over the message's first byte instead of its digest
sign_unhashed(keypair, message) ==
    sign_prehashed(keypair, IF message = <<>> THEN 0 ELSE message[1])

\* Keypair::sign
sign(keypair, message) == sign_prehashed(keypair, blake2_256(message))

\* a signature is refused unless its last byte is a recovery id
internal_verify_checks_recid(sig, digest, pubkey) ==
    LET signature == from_compact(SubSeq(sig, 1, 2))
        public    == ParsePoint(pubkey)
    IN  IF sig[3] > 3 THEN FALSE
        ELSE IF ~signature.ok THEN FALSE
        ELSE IF ~public.ok THEN FALSE
        ELSE verify_ecdsa(digest, signature, public.point)

\* internal::verify
internal_verify(sig, digest, pubkey) ==
    LET signature == from_compact(SubSeq(sig, 1, 2))
        public    == ParsePoint(pubkey)
    IN  IF ~signature.ok THEN FALSE
        ELSE IF ~public.ok THEN FALSE
        ELSE verify_ecdsa(digest, signature, public.point)

\* ecdsa::verify
verify(sig, message, pubkey) == internal_verify(sig, blake2_256(message), pubkey)

\* ---------------------------------------------------------------- inputs

\* the longest junction list and the longest message the callers pass
MaxJunctions == 3
MaxMessageLen == 2

Chars(w1, w2, w3) == w1 \o <<" ">> \o w2 \o <<" ">> \o w3

\* phrases of secret URIs: hex seeds (valid, zero, not below the group order, odd
\* length, a non-hex character, too long, empty) and mnemonics (valid, valid with
\* an invalid seed, wrong checksum, unknown word, wrong word count)
Phrases ==
    { <<"0", "x", "0", "7">>, <<"0", "x", "2", "A">>, <<"0", "x", "0", "0">>,
      <<"0", "x", "f", "f">>, <<"0", "x", "7">>, <<"0", "x", "g", "7">>,
      <<"0", "x", "0", "7", "0", "7">>, <<"0", "x">>,
      Chars(WordList[1], WordList[2], WordList[3]),
      Chars(WordList[4], WordList[3], WordList[4]),
      Chars(WordList[1], WordList[1], WordList[2]),
      Chars(WordList[1], WordList[2], WordList[1]),
      Chars(WordList[1], WordList[2], <<"z", "o", "o">>),
      WordList[1] \o <<" ">> \o WordList[2] }

Passwords == {None, Some(<<112>>), Some(<<113, 112>>)}

JunctionBytes == {1, 2}
Junctions == {Hard(b) : b \in JunctionBytes} \cup {Soft(b) : b \in JunctionBytes}

SeqsUpTo(S, n) == UNION {[1..m -> S] : m \in 0..n}

JunctionLists == SeqsUpTo(Junctions, MaxJunctions)

SecretUris == [phrase : Phrases, junctions : JunctionLists, password : Passwords]

\* every Keypair value there is: from_secret_key is the only constructor
Keypairs == {from_secret_key(b).key : b \in {x \in Byte : ValidScalar(x)}}

\* parsed mnemonics (their entropy)
Mnemonics == {<<e>> : e \in 0..(Len(WordList) * Len(WordList) - 1)}

Messages == SeqsUpTo({0, 1}, MaxMessageLen)

\* ----------------------------------------------------------- dev accounts

\* the accessors of mod dev
DevNames == {"alice", "bob", "charlie", "dave", "eve", "ferdie", "one", "two"}

\* the accessors declared inside the once_static_cloned! block
OnceStaticNames_two_outside == DevNames \ {"two"}
OnceStaticNames == DevNames

\* crate::crypto::DEV_PHRASE, the phrase of a URI that names none
DEV_PHRASE == Chars(WordList[1], WordList[2], WordList[3])

\* the junction payload of "//Alice", ...: one byte for the 32 of the encoded name,
\* a distinct one per account; as with the real phrase, every account's key exists
DevJunctionBytes(name) ==
    CASE name = "alice" -> 1 [] name = "bob" -> 3 [] name = "charlie" -> 4
      [] name = "dave" -> 5 [] name = "eve" -> 6 [] name = "ferdie" -> 7
      [] name = "one" -> 8 [] name = "two" -> 9

\* SecretUri::from_str("//Alice"), ...
DevUri(name) ==
    [phrase |-> DEV_PHRASE, junctions |-> <<Hard(DevJunctionBytes(name))>>, password |-> None]

\* the body of an accessor: Keypair::from_uri(&SecretUri::from_str("//Alice").unwrap());
\* the outer unwrap() panics on an Err
DevBody(name) == from_uri(DevUri(name))

\* the threads of the process that call dev accessors
MaxThreads == 2
Threads == 1..MaxThreads

\* a once-cell: its state ("incomplete", "running", "complete"), the slot the value
\* is written to, how often the body ran, and the first value a caller was given
EmptyCell == [state |-> "incomplete", value |-> NoKeypair, runs |-> 0, first |-> None]
IdleThread == [at |-> "idle", name |-> "", val |-> NoKeypair, got |-> NoKeypair]

\* ---------------------------------------------------------- fetch_metadata

\* codegen/src/fetch_metadata.rs.  A u32 is two bytes wide here (so u32::MAX is
\* 65535), its SCALE encoding the two bytes, low byte first.

UNSTABLE_METADATA_VERSION == 65535

\* MetadataVersion
Latest == [kind |-> "Latest", v |-> 0]
Unstable == [kind |-> "Unstable", v |-> 0]
Version(n) == [kind |-> "Version", v |-> n]

\* Result<Vec<u8>, FetchMetadataError>; an error is its variant and message
FetchOk(bytes) == [ok |-> TRUE, bytes |-> bytes, err |-> <<>>]
FetchErr(e) == [ok |-> FALSE, bytes |-> <<>>, err |-> e]
Pending == [ok |-> FALSE, bytes |-> <<>>, err |-> <<"pending">>]

NoValidVersions == <<"Other", "No valid metadata versions returned">>
NoUnstableVersion ==
    <<"Other", "The node does not have an unstable metadata version available">>
VersionUnavailable(v) == <<"Other", "The node does not have version {version} available", v>>
LegacyOnly14 ==
    <<"Other", "The node can only return version 14 metadata using the legacy API but you've asked for something else">>

\* u32::encode and hex::encode
encode_u32(v) == <<v % 256, v \div 256>>
hex_encode(bytes) ==
    IF bytes = <<>> THEN <<>>
    ELSE <<HexChars[(bytes[1] \div 16) + 1], HexChars[(bytes[1] % 16) + 1],
           HexChars[(bytes[2] \div 16) + 1], HexChars[(bytes[2] % 16) + 1]>>

\* format!("0x{}", hex::encode(&bytes))
VersionParam(v) == <<"0", "x">> \o hex_encode(encode_u32(v))

Contains(list, v) == \E i \in DOMAIN list : list[i] = v
MaxOf(S) == CHOOSE x \in S : \A y \in S : y <= x

\* Latest takes the largest version the node supports, the unstable one included
SelectVersion_latest_unfiltered(version, supported_versions) ==
    CASE version.kind = "Latest" ->
             IF supported_versions = <<>> THEN [ok |-> FALSE, v |-> 0, err |-> NoValidVersions]
             ELSE [ok |-> TRUE, err |-> <<>>,
                   v |-> MaxOf({supported_versions[i] : i \in DOMAIN supported_versions})]
      [] version.kind = "Unstable" ->
             IF Contains(supported_versions, UNSTABLE_METADATA_VERSION)
             THEN [ok |-> TRUE, v |-> UNSTABLE_METADATA_VERSION, err |-> <<>>]
             ELSE [ok |-> FALSE, v |-> 0, err |-> NoUnstableVersion]
      [] version.kind = "Version" ->
             IF Contains(supported_versions, version.v)
             THEN [ok |-> TRUE, v |-> version.v, err |-> <<>>]
             ELSE [ok |-> FALSE, v |-> 0, err |-> VersionUnavailable(version.v)]

\* fetch_inner, "Return the version the user wants if it's supported".  [ok, v, err]
SelectVersion(version, supported_versions) ==
    CASE version.kind = "Latest" ->
             LET stable == {supported_versions[i] : i \in DOMAIN supported_versions}
                               \ {UNSTABLE_METADATA_VERSION}
             IN  IF stable = {} THEN [ok |-> FALSE, v |-> 0, err |-> NoValidVersions]
                 ELSE [ok |-> TRUE, v |-> MaxOf(stable), err |-> <<>>]
      [] version.kind = "Unstable" ->
             IF Contains(supported_versions, UNSTABLE_METADATA_VERSION)
             THEN [ok |-> TRUE, v |-> UNSTABLE_METADATA_VERSION, err |-> <<>>]
             ELSE [ok |-> FALSE, v |-> 0, err |-> NoUnstableVersion]
      [] version.kind = "Version" ->
             IF Contains(supported_versions, version.v)
             THEN [ok |-> TRUE, v |-> version.v, err |-> <<>>]
             ELSE [ok |-> FALSE, v |-> 0, err |-> VersionUnavailable(version.v)]

\* the legacy interface serves every explicit version
LegacyAllowed_any_version(version) == version.kind \in {"Latest", "Version"}

\* fetch_inner_legacy: matches!(version, Latest | Version(14))
LegacyAllowed(version) ==
    version.kind = "Latest" \/ (version.kind = "Version" /\ version.v = 14)

\* what the node answers a request with: the request fails, the answer is no hex,
\* the bytes do not decode, or they decode to a value
RpcFailed == [kind |-> "rpc error", val |-> <<>>]
NotHex == [kind |-> "not hex", val |-> <<>>]
NotDecodable == [kind |-> "not decodable", val |-> <<>>]
Decoded(val) == [kind |-> "value", val |-> val]

\* the error `?` makes of a failed request, hex::decode or Decode::decode
ReplyError(reply) ==
    CASE reply.kind = "rpc error" -> <<"RequestError">>
      [] reply.kind = "not hex" -> <<"DecodeError">>
      [] reply.kind = "not decodable" -> <<"CodecError">>

\* the requests and replies on the wire
Request(method, param) == [dir |-> "request", method |-> method, param |-> param]
Reply(reply) == [dir |-> "reply", kind |-> reply.kind, val |-> reply.val]

\* the result of a reply that carries metadata bytes
ReplyResult(reply) ==
    IF reply.kind = "value" THEN FetchOk(reply.val) ELSE FetchErr(ReplyError(reply))

\* the first error is returned when the legacy attempt fails too
FallbackResult_keeps_first_error(inner, legacy) == IF legacy.ok THEN legacy ELSE inner

\* fetch_metadata, Err(_) => fetch_inner_legacy(..): the first error is dropped
FallbackResult(inner, legacy) == legacy

\* fetch_inner returned Err(e): fetch_inner_legacy runs up to its request.  The
\* next value of fetch and what is put on the wire.  [fetch, sent]
FallBack(f, e) ==
    IF LegacyAllowed(f.version)
    THEN [fetch |-> [f EXCEPT !.at = "await legacy", !.inner = FetchErr(e)],
          sent |-> <<Request("Metadata_metadata", <<"0", "x">>)>>]
    ELSE [fetch |-> [f EXCEPT !.at = "done", !.inner = FetchErr(e),
                        !.ret = FallbackResult(FetchErr(e), FetchErr(LegacyOnly14))],
          sent |-> <<>>]

\* the longest list of supported versions a node answers with
MaxSupported == 3

\* the versions nodes know, the versions callers ask for, the metadata nodes hold
NodeVersions == {14, 15, UNSTABLE_METADATA_VERSION}
SupportedLists == SeqsUpTo(NodeVersions, MaxSupported)
AskedVersions == {Latest, Unstable, Version(13), Version(14), Version(15),
                  Version(UNSTABLE_METADATA_VERSION)}
MetadataBytes == {<<109>>, <<109, 101>>}
FailedReplies == {RpcFailed, NotHex, NotDecodable}

NoFetch == [at |-> "idle", version |-> Latest, inner |-> Pending, ret |-> Pending]

\* ---------------------------------------------------------- initial state

NoCall == [op |-> "none"]
NeverSeen == [phase |-> "never", ret |-> Err("NotCalled")]
NoUri == [phrase |-> <<>>, junctions |-> <<>>, password |-> None]
Untampered == [flipped |-> FALSE, bit |-> 0]

InitApart ==
    /\ receiver = NoKeypair
    /\ issued = {}
    /\ registry = [n \in DevNames |-> EmptyCell]
    /\ threads = [t \in Threads |-> IdleThread]
    /\ fetch = NoFetch
    /\ wire = <<>>

Init ==
    /\ pc = "idle"
    /\ call = NoCall
    /\ held_uri = NoUri
    /\ seen = NeverSeen
    /\ handed_sig = <<>>
    /\ signer = NoKeypair
    /\ signed = <<>>
    /\ tamper = Untampered
    /\ InitApart

\* ---------------------------------------------------------------- actions

FromUriCall(u) ==
    /\ pc = "idle"
    /\ call' = [op |-> "from_uri", uri |-> u, ret |-> from_uri(u)]
    /\ pc' = "returned"

FromPhraseCall(m, pw) ==
    /\ pc = "idle"
    /\ call' = [op |-> "from_phrase", mnemonic |-> m, password |-> pw,
                ret |-> from_phrase(m, pw)]
    /\ pc' = "returned"

FromSecretKeyCall(b) ==
    /\ pc = "idle"
    /\ call' = [op |-> "from_secret_key", secret |-> b, ret |-> from_secret_key(b)]
    /\ pc' = "returned"

DeriveCall(k, js) ==
    /\ pc = "idle"
    /\ call' = [op |-> "derive", key |-> k, junctions |-> js,
                ret |-> derive(k, js),
                consumed |-> derive_loop(secret_key(k), js, 0).consumed]
    /\ pc' = "returned"

SignCall(k, m) ==
    /\ pc = "idle"
    /\ call' = [op |-> "sign", key |-> k, message |-> m, ret |-> sign(k, m)]
    /\ pc' = "returned"

SignPrehashedCall(k, h) ==
    /\ pc = "idle"
    /\ call' = [op |-> "sign_prehashed", key |-> k, digest |-> h,
                ret |-> sign_prehashed(k, h)]
    /\ pc' = "returned"

VerifyCall(sg, m, pk) ==
    /\ pc = "idle"
    /\ call' = [op |-> "verify", sig |-> sg, message |-> m, pubkey |-> pk,
                ret |-> verify(sg, m, pk)]
    /\ pc' = "returned"

PublicKeyCall(k) ==
    /\ pc = "idle"
    /\ call' = [op |-> "public_key", key |-> k, ret |-> public_key(k)]
    /\ pc' = "returned"

SecretKeyCall(k) ==
    /\ pc = "idle"
    /\ call' = [op |-> "secret_key", key |-> k, ret |-> secret_key(k)]
    /\ pc' = "returned"

\* the caller takes the returned value and is ready for its next call
Return ==
    /\ pc = "returned"
    /\ pc' = "idle"
    /\ call' = NoCall

\* ------------------------------------------------- key construction: Spec

\* the variables of the other specifications
others == <<apart, held_uri, seen, handed_sig, signer, signed, tamper>>

ConstructFromUri == pc = "idle" /\ \E u \in SecretUris : FromUriCall(u)
ConstructFromPhrase ==
    pc = "idle" /\ \E m \in Mnemonics, pw \in Passwords : FromPhraseCall(m, pw)
ConstructFromSecretKey == pc = "idle" /\ \E b \in Byte : FromSecretKeyCall(b)
DeriveChild == pc = "idle" /\ \E k \in Keypairs, js \in JunctionLists : DeriveCall(k, js)
SignWithKey == pc = "idle" /\ \E k \in Keypairs, m \in Messages : SignCall(k, m)
SignDigestWithKey ==
    pc = "idle" /\ \E k \in Keypairs, m \in Messages : SignPrehashedCall(k, blake2_256(m))

Next ==
    \/ ConstructFromUri /\ UNCHANGED others
    \/ ConstructFromPhrase /\ UNCHANGED others
    \/ ConstructFromSecretKey /\ UNCHANGED others
    \/ DeriveChild /\ UNCHANGED others
    \/ SignWithKey /\ UNCHANGED others
    \/ SignDigestWithKey /\ UNCHANGED others
    \/ Return /\ UNCHANGED others

Spec == Init /\ [][Next]_vars

\* ------------------------------------------------------- claims under Spec

HasSoft(js) == \E i \in DOMAIN js : js[i].kind = "Soft"
AllHard(js) == \A i \in DOMAIN js : js[i].kind = "Hard"
FirstSoft(js) == CHOOSE i \in DOMAIN js : js[i].kind = "Soft" /\ AllHard(SubSeq(js, 1, i - 1))

\* the root key of a URI: what from_uri builds before it looks at the junctions
RootKey(u) == from_uri([u EXCEPT !.junctions = <<>>])

\* C2 as stated: from_uri on a URI with a soft junction fails with
\* Error::SoftJunction.
C2_SoftJunctionAlwaysReported ==
    (call.op = "from_uri" /\ HasSoft(call.uri.junctions))
        => call.ret = Err("SoftJunction")

\* C2, amended: from_uri on a URI with a soft junction never returns a keypair; the
\* error is SoftJunction whenever the root key is built, and the root's own error
\* (Hex, Phrase, InvalidSeed) otherwise.
C2_SoftJunctionRejected ==
    (call.op = "from_uri" /\ HasSoft(call.uri.junctions))
        => /\ ~call.ret.ok
           /\ call.ret.key = NoKeypair
           /\ call.ret.err = IF RootKey(call.uri).ok THEN "SoftJunction"
                             ELSE RootKey(call.uri).err

C2_Witness ==
    /\ call.op = "from_uri"
    /\ Len(call.uri.junctions) = 3
    /\ call.uri.junctions[1].kind = "Hard"
    /\ call.uri.junctions[2].kind = "Hard"
    /\ call.uri.junctions[3].kind = "Soft"
    /\ RootKey(call.uri).ok
    /\ call.ret = Err("SoftJunction")

\* a phrase that is 0x followed by the two hex characters of each secret byte
IsHexSeedPhrase(ph) ==
    /\ strip_prefix_0x(ph).some
    /\ Len(ph) = 2 + 2 * SECRET_KEY_LENGTH
    /\ \A i \in 3..Len(ph) : IsHexChar(ph[i])

\* C5: for a hex-seed phrase, from_uri returns the same result for every password
\* (absent or any), the junctions held equal.
C5_HexPhraseIgnoresPassword ==
    (call.op = "from_uri" /\ IsHexSeedPhrase(call.uri.phrase))
        => \A pw \in Passwords : from_uri([call.uri EXCEPT !.password = pw]) = call.ret

C5_Witness ==
    /\ call.op = "from_uri"
    /\ IsHexSeedPhrase(call.uri.phrase)
    /\ call.uri.password.some
    /\ call.uri.junctions # <<>>
    /\ call.ret.ok
    /\ from_uri([call.uri EXCEPT !.password = None]) = call.ret

\* one hardened step as the claims state it: the hash of the encoded domain tag,
\* secret and junction payload
HardenedStep(s, j) ==
    blake2_256(<<4 * Len(HDKD_TAG)>> \o HDKD_TAG \o <<s>> \o <<j.bytes>>)

\* s_i of the left fold: s_0 is the receiver's secret, s_i = HardenedStep(s_(i-1), j_i)
RECURSIVE FoldedSecret(_, _, _)
FoldedSecret(s0, js, i) ==
    IF i = 0 THEN s0 ELSE HardenedStep(FoldedSecret(s0, js, i - 1), js[i])

\* the junction hash has no collision among the inputs the two orders hash
CollisionFreeOn(s, A, B) ==
    LET inputs == { <<s, A>>, <<s, B>>, <<HardenedStep(s, A), B>>, <<HardenedStep(s, B), A>> }
    IN  \A x, y \in inputs : x # y => HardenedStep(x[1], x[2]) # HardenedStep(y[1], y[2])

\* C7: deriving over [A, B] and over [B, A], A # B hard junctions, gives different
\* keys (secret and public) whenever the junction hash is collision-free on the
\* inputs involved and both derivations return a key; the two results are equal
\* only when both are the InvalidSeed error.
C7_OrderSensitive ==
    (/\ call.op = "derive"
     /\ Len(call.junctions) = 2
     /\ AllHard(call.junctions)
     /\ call.junctions[1] # call.junctions[2]
     /\ CollisionFreeOn(call.key.secret, call.junctions[1], call.junctions[2]))
        => LET swapped == derive(call.key, <<call.junctions[2], call.junctions[1]>>)
           IN  /\ (call.ret.ok \/ swapped.ok) => call.ret # swapped
               /\ (call.ret.ok /\ swapped.ok) =>
                      /\ secret_key(call.ret.key) # secret_key(swapped.key)
                      /\ public_key(call.ret.key) # public_key(swapped.key)

C7_Witness ==
    /\ call.op = "derive"
    /\ Len(call.junctions) = 2
    /\ AllHard(call.junctions)
    /\ call.junctions[1] # call.junctions[2]
    /\ CollisionFreeOn(call.key.secret, call.junctions[1], call.junctions[2])
    /\ call.ret.ok
    /\ derive(call.key, <<call.junctions[2], call.junctions[1]>>).ok

\* C8: over hard junctions j1..jn derive returns from_secret_key(s_n), s the left
\* fold of the hardened step from the receiver's secret, each junction applied
\* once, in list order, under the fixed domain tag.
C8_DeriveIsLeftFold ==
    (call.op = "derive" /\ AllHard(call.junctions))
        => call.ret = from_secret_key(
               FoldedSecret(call.key.secret, call.junctions, Len(call.junctions)))

C8_Witness ==
    /\ call.op = "derive"
    /\ AllHard(call.junctions)
    /\ Len(call.junctions) = 3
    /\ call.junctions[1] # call.junctions[2]
    /\ call.ret.ok

\* C9: derive over no junctions succeeds and returns the receiver's own secret and
\* public key.
C9_ZeroJunctionsNoOp ==
    (call.op = "derive" /\ call.junctions = <<>>)
        => /\ call.ret.ok
           /\ secret_key(call.ret.key) = secret_key(call.key)
           /\ public_key(call.ret.key) = public_key(call.key)

C9_Witness ==
    /\ call.op = "derive"
    /\ call.junctions = <<>>
    /\ call.ret = Ok(call.key)

\* C10: derive over a list with a soft junction returns Error::SoftJunction and no
\* keypair, having taken the junctions up to the first soft one and none after it,
\* whatever hard junctions precede or follow.
C10_SoftJunctionTerminal ==
    (call.op = "derive" /\ HasSoft(call.junctions))
        => /\ call.ret = Err("SoftJunction")
           /\ call.ret.key = NoKeypair
           /\ call.consumed = FirstSoft(call.junctions)

C10_Witness ==
    /\ call.op = "derive"
    /\ Len(call.junctions) = 3
    /\ call.junctions[1].kind = "Hard"
    /\ call.junctions[2].kind = "Soft"
    /\ call.junctions[3].kind = "Hard"
    /\ call.ret = Err("SoftJunction")
    /\ call.consumed = 2

\* the bytes of a scalar that SecretKey::from_slice refuses
InvalidScalarBytes(b) == b = 0 \/ b >= CurveOrder

\* ret is what the scalar check makes of the secret bytes b
ScalarChecked(ret, b) ==
    IF InvalidScalarBytes(b) THEN ret = Err("InvalidSeed")
    ELSE ret = Ok([secret |-> b, point |-> ScalarBaseMul(b)])

\* the secret bytes of the root key of a URI, when its phrase gives any.  [some, val]
RootSecretBytes(u) ==
    IF strip_prefix_0x(u.phrase).some
    THEN (IF from_hex(strip_prefix_0x(u.phrase).val).ok
          THEN Some(from_hex(strip_prefix_0x(u.phrase).val).val) ELSE None)
    ELSE (IF Mnemonic_from_str(u.phrase).ok
          THEN Some(seed_from_entropy(Mnemonic_from_str(u.phrase).entropy,
                                      IF u.password.some THEN u.password.val ELSE <<>>).val[1])
          ELSE None)

\* C14: from_secret_key(b) fails with Error::InvalidSeed exactly when b, read as an
\* integer, is zero or not below the group order, and returns the keypair of b
\* otherwise; from_phrase, derive and from_uri put the secret bytes they end with
\* (from_uri those of its root key first) to the same check.
C14_ScalarValidation ==
    pc = "returned" =>
        /\ call.op = "from_secret_key" => ScalarChecked(call.ret, call.secret)
        /\ call.op = "from_phrase" =>
               ScalarChecked(call.ret,
                   seed_from_entropy(call.mnemonic,
                       IF call.password.some THEN call.password.val ELSE <<>>).val[1])
        /\ (call.op = "derive" /\ AllHard(call.junctions)) =>
               ScalarChecked(call.ret,
                   FoldedSecret(call.key.secret, call.junctions, Len(call.junctions)))
        /\ (call.op = "from_uri" /\ RootSecretBytes(call.uri).some) =>
               LET root == RootSecretBytes(call.uri).val
               IN  IF InvalidScalarBytes(root) THEN call.ret = Err("InvalidSeed")
                   ELSE AllHard(call.uri.junctions) =>
                            ScalarChecked(call.ret,
                                FoldedSecret(root, call.uri.junctions,
                                             Len(call.uri.junctions)))

\* the group order itself is refused
C14_Witness ==
    /\ pc = "returned"
    /\ call.op = "from_secret_key"
    /\ call.secret = CurveOrder
    /\ call.ret = Err("InvalidSeed")

\* the junctions before and after position i of a list
Prefix(js, i) == SubSeq(js, 1, i)
Suffix(js, i) == SubSeq(js, i + 1, Len(js))

\* C18: over hard junctions, wherever the list is cut, if k.derive(js1) succeeds
\* with k1 then k.derive(js1 ++ js2) has the outcome of k1.derive(js2); and derive
\* fails with InvalidSeed exactly when the final accumulator is no valid scalar,
\* whatever the accumulators between the junctions are.
C18_DeriveComposes ==
    (pc = "returned" /\ call.op = "derive" /\ AllHard(call.junctions))
        => /\ \A i \in 0..Len(call.junctions) :
                  LET first == derive(call.key, Prefix(call.junctions, i))
                  IN  first.ok => derive(first.key, Suffix(call.junctions, i)) = call.ret
           /\ call.ret.ok <=>
                  ~InvalidScalarBytes(
                      FoldedSecret(call.key.secret, call.junctions, Len(call.junctions)))

\* a derive over three hard junctions succeeded although the accumulator after the
\* first junction is no valid scalar; the cut after the second junction composes
C18_Witness ==
    /\ pc = "returned"
    /\ call.op = "derive"
    /\ AllHard(call.junctions)
    /\ Len(call.junctions) = 3
    /\ call.ret.ok
    /\ derive(call.key, Prefix(call.junctions, 1)) = Err("InvalidSeed")
    /\ derive(call.key, Prefix(call.junctions, 2)).ok
    /\ derive(derive(call.key, Prefix(call.junctions, 2)).key,
              Suffix(call.junctions, 2)) = call.ret

\* the error the root key of a URI fails with, "None" when it is built
RootError(u) ==
    IF strip_prefix_0x(u.phrase).some
    THEN (IF ~IsHexSeedPhrase(u.phrase) THEN "Hex"
          ELSE IF InvalidScalarBytes(RootSecretBytes(u).val) THEN "InvalidSeed"
          ELSE "None")
    ELSE (IF ~Mnemonic_from_str(u.phrase).ok THEN "Phrase"
          ELSE IF InvalidScalarBytes(RootSecretBytes(u).val) THEN "InvalidSeed"
          ELSE "None")

\* C20: when the root key of the URI fails (a 0x phrase that is not 0x and the hex
\* characters of a secret: Hex; an invalid mnemonic: Phrase; an invalid scalar:
\* InvalidSeed), from_uri returns that error whatever the junctions are, and it
\* returns SoftJunction only when the root key was built.
C20_RootErrorFirst ==
    (pc = "returned" /\ call.op = "from_uri")
        => /\ RootError(call.uri) # "None" => call.ret = Err(RootError(call.uri))
           /\ call.ret = Err("SoftJunction") =>
                  (RootError(call.uri) = "None" /\ HasSoft(call.uri.junctions))
           /\ (RootError(call.uri) = "None" /\ HasSoft(call.uri.junctions))
                  => call.ret = Err("SoftJunction")

\* a phrase with a non-hex character fails with Hex although the first junction
\* is soft
C20_Witness ==
    /\ pc = "returned"
    /\ call.op = "from_uri"
    /\ call.uri.phrase = <<"0", "x", "g", "7">>
    /\ Len(call.uri.junctions) = 2
    /\ call.uri.junctions[1].kind = "Soft"
    /\ call.ret = Err("Hex")

\* ------------------------------------- repeated derivation: SpecRederive

\* a caller holds one secret URI and calls from_uri on it again and again, with
\* other calls (on the key it got, on other URIs of the same phrase) in between
InitRederive ==
    /\ pc = "idle"
    /\ call = NoCall
    /\ held_uri \in SecretUris
    /\ seen = NeverSeen
    /\ handed_sig = <<>>
    /\ signer = NoKeypair
    /\ signed = <<>>
    /\ tamper = Untampered
    /\ InitApart

Rederive ==
    /\ FromUriCall(held_uri)
    /\ seen' = CASE seen.phase = "never" -> [phase |-> "once", ret |-> call'.ret]
                 [] seen.phase = "once" -> [seen EXCEPT !.phase = "again"]
                 [] seen.phase = "once, then others" ->
                        [seen EXCEPT !.phase = "again after others"]
                 [] OTHER -> seen
    /\ UNCHANGED <<apart, held_uri, handed_sig, signer, signed, tamper>>

\* another operation ran between two calls of from_uri(held_uri)
Interleave ==
    /\ seen' = IF seen.phase = "once" THEN [seen EXCEPT !.phase = "once, then others"]
               ELSE seen
    /\ UNCHANGED <<apart, held_uri, handed_sig, signer, signed, tamper>>

RederiveOtherUri ==
    /\ pc = "idle"
    /\ \E js \in SeqsUpTo(Junctions, 1) :
           /\ js # held_uri.junctions
           /\ FromUriCall([held_uri EXCEPT !.junctions = js])
    /\ Interleave

RederiveDeriveChild ==
    /\ pc = "idle"
    /\ seen.ret.ok
    /\ \E js \in SeqsUpTo(Junctions, 1) : DeriveCall(seen.ret.key, js)
    /\ Interleave

RederiveSign ==
    /\ pc = "idle"
    /\ seen.ret.ok
    /\ \E m \in Messages : SignCall(seen.ret.key, m)
    /\ Interleave

RederiveFromSecretKey ==
    /\ pc = "idle"
    /\ \E b \in {1, 255} : FromSecretKeyCall(b)
    /\ Interleave

NextRederive ==
    \/ Rederive
    \/ RederiveOtherUri
    \/ RederiveDeriveChild
    \/ RederiveSign
    \/ RederiveFromSecretKey
    \/ Return /\ UNCHANGED others

SpecRederive == InitRederive /\ [][NextRederive]_vars

SignerSecrets == {1, 3, 7, 42, 99, 100, 150, 198}
Signers == {from_secret_key(b).key : b \in SignerSecrets}

\* 33-byte keys that do not decompress: a prefix other than 2 or 3, an x that is
\* no field element, an x with x^3 + 7 not a square
MalformedPublicKeys == {<<0, 0>>, <<4, 3>>, <<2, 255>>, <<3, 211>>, <<2, 0>>, <<3, 1>>}

PublicKeyInputs(k) == {public_key(k), public_key(from_secret_key(5).key)} \cup MalformedPublicKeys

\* signature bytes that no key of the model produced
ForgedSignatures ==
    {<<r, s, v>> : r \in {0, 1, 198, 199, 255}, s \in {0, 1, 99, 100, 199}, v \in {0, 3, 4, 255}}

\* bytes with bit i inverted (bit 0 is the lowest bit of the first byte)
FlipBit(bytes, i) ==
    [bytes EXCEPT ![(i \div 8) + 1] = FlipBitOfByte(@, i % 8)]

SignMessage ==
    /\ pc = "idle"
    /\ handed_sig = <<>>
    /\ \E k \in Keypairs, m \in Messages :
           /\ SignCall(k, m)
           /\ handed_sig' = sign(k, m)
           /\ signer' = k
           /\ signed' = m
    /\ UNCHANGED <<apart, held_uri, seen, tamper>>

\* the verifier is handed bytes that were never signed
HandForged ==
    /\ pc = "idle"
    /\ handed_sig = <<>>
    /\ \E bytes \in ForgedSignatures : handed_sig' = bytes
    /\ UNCHANGED <<apart, pc, call, held_uri, seen, signer, signed, tamper>>

\* one bit of a signature is flipped on its way to the verifier
FlipOneBit ==
    /\ pc = "idle"
    /\ signer \in Signers
    /\ ~tamper.flipped
    /\ \E i \in 0..(8 * Len(handed_sig) - 1) :
           /\ handed_sig' = FlipBit(handed_sig, i)
           /\ tamper' = [flipped |-> TRUE, bit |-> i]
    /\ UNCHANGED <<apart, pc, call, held_uri, seen, signer, signed>>

VerifySignature ==
    /\ pc = "idle"
    /\ handed_sig # <<>>
    /\ \E m \in Messages, pk \in PublicKeyInputs(signer) : VerifyCall(handed_sig, m, pk)
    /\ UNCHANGED others

NextVerify ==
    \/ SignMessage
    \/ HandForged
    \/ FlipOneBit
    \/ VerifySignature
    \/ Return /\ UNCHANGED others

SpecVerify == Init /\ [][NextVerify]_vars

\* the verifier is handed k.sign(m) with m and k.public_key()
VerifiesOwnSignature ==
    /\ call.op = "verify"
    /\ signer # NoKeypair
    /\ call.message = signed
    /\ call.pubkey = public_key(signer)

\* C1: verify(k.sign(m), m, k.public_key()) returns true.
C1_SignVerifyAgree ==
    (VerifiesOwnSignature /\ ~tamper.flipped /\ call.sig = sign(signer, signed))
        => call.ret = TRUE

C1_Witness ==
    /\ VerifiesOwnSignature
    /\ ~tamper.flipped
    /\ Len(signed) = 2
    /\ call.sig = handed_sig
    /\ call.ret = TRUE

\* the recovery ids a recoverable signature can carry
ValidRecoveryIds == 0..3

\* C3: verify returns false for every signature whose recovery byte is invalid and
\* for every public key that fails to decompress, whatever the message.
C3_MalformedVerifiesFalse ==
    (/\ call.op = "verify"
     /\ \/ call.sig[Len(call.sig)] \notin ValidRecoveryIds
        \/ ~ParsePoint(call.pubkey).ok)
        => call.ret = FALSE

\* C4: verify returns false for k.sign(m) with any one bit flipped, under m and
\* k.public_key().
C4_AnyBitFlipRejected ==
    (VerifiesOwnSignature /\ tamper.flipped) => call.ret = FALSE

\* values of byte 64: the recovery ids, the first value that is none, the ids offset
\* by 27, and bytes with the high bit set
RecoveryBytes == ValidRecoveryIds \cup {4, 27, 28, 128, 255}

\* C19: two signatures that agree on bytes 0..63 and differ only in byte 64 (the
\* last of the three at this scale) get the same answer from verify, whatever the
\* message and the public key.
C19_RecoveryByteNotRead ==
    (pc = "returned" /\ call.op = "verify")
        => \A b \in RecoveryBytes :
               verify([call.sig EXCEPT ![Len(call.sig)] = b], call.message, call.pubkey)
                   = call.ret

\* a signature whose recovery byte had a bit flipped verified, as the signed one does
C19_Witness ==
    /\ pc = "returned"
    /\ VerifiesOwnSignature
    /\ tamper.flipped
    /\ tamper.bit \div 8 = Len(call.sig) - 1
    /\ call.sig # sign(signer, signed)
    /\ SubSeq(call.sig, 1, 2) = SubSeq(sign(signer, signed), 1, 2)
    /\ call.ret = TRUE
    /\ verify(sign(signer, signed), call.message, call.pubkey) = TRUE

\* --------------------------------------------------- dev accounts: SpecDev

\* threads call the dev accessors concurrently.  An accessor declared in the
\* once_static_cloned! block keeps its value in a static once-cell: the first
\* thread to arrive runs the body and writes the value, the others wait for it,
\* and every caller is given a clone of the stored value.

not_dev == <<pc, call, held_uri, seen, handed_sig, signer, signed, tamper,
             receiver, issued, fetch, wire>>

\* the process calls one or two of the accessors, whose cells start incomplete
InitDev ==
    /\ pc = "idle"
    /\ call = NoCall
    /\ held_uri = NoUri
    /\ seen = NeverSeen
    /\ handed_sig = <<>>
    /\ signer = NoKeypair
    /\ signed = <<>>
    /\ tamper = Untampered
    /\ receiver = NoKeypair
    /\ issued = {}
    /\ \E a, b \in DevNames : registry = [n \in {a, b} |-> EmptyCell]
    /\ threads = [t \in Threads |-> IdleThread]
    /\ fetch = NoFetch
    /\ wire = <<>>

\* thread t calls accessor n
DevCall(t, n) ==
    /\ threads[t].at = "idle"
    /\ threads' = [threads EXCEPT ![t] = [IdleThread EXCEPT !.at = "get_or_init", !.name = n]]
    /\ UNCHANGED registry

\* get_or_init: a complete cell is read; an incomplete one is claimed by the thread,
\* which goes on to run the body; on a running one the thread waits
OnceGetOrInit(t) ==
    LET n == threads[t].name
    IN  /\ threads[t].at = "get_or_init"
        /\ IF n \notin OnceStaticNames
           THEN /\ threads' = [threads EXCEPT ![t].at = "body"]
                /\ UNCHANGED registry
           ELSE /\ registry[n].state # "running"
                /\ IF registry[n].state = "complete"
                   THEN /\ threads' = [threads EXCEPT ![t].at = "clone"]
                        /\ UNCHANGED registry
                   ELSE /\ registry' = [registry EXCEPT ![n].state = "running"]
                        /\ threads' = [threads EXCEPT ![t].at = "body"]

\* the body of the accessor runs; a failed unwrap() panics, which leaves the cell
\* incomplete and ends the thread
DevRunBody(t) ==
    LET n == threads[t].name
        r == DevBody(n)
    IN  /\ threads[t].at = "body"
        /\ IF r.ok
           THEN /\ registry' = [registry EXCEPT ![n].runs = @ + 1]
                /\ threads' = [threads EXCEPT ![t].val = r.key,
                                  ![t].at = IF n \in OnceStaticNames THEN "write_secret"
                                            ELSE "return"]
           ELSE /\ registry' = [registry EXCEPT ![n].runs = @ + 1, ![n].state = "incomplete"]
                /\ threads' = [threads EXCEPT ![t].at = "panicked"]

\* the value is moved into the cell's slot, one part after the other
OnceWriteSecret(t) ==
    /\ threads[t].at = "write_secret"
    /\ registry' = [registry EXCEPT ![threads[t].name].value.secret = threads[t].val.secret]
    /\ threads' = [threads EXCEPT ![t].at = "write_point"]

OnceWritePoint(t) ==
    /\ threads[t].at = "write_point"
    /\ registry' = [registry EXCEPT ![threads[t].name].value.point = threads[t].val.point]
    /\ threads' = [threads EXCEPT ![t].at = "publish"]

\* the cell becomes complete, which releases the waiting threads
OncePublish(t) ==
    /\ threads[t].at = "publish"
    /\ registry' = [registry EXCEPT ![threads[t].name].state = "complete"]
    /\ threads' = [threads EXCEPT ![t].at = "clone"]

\* the caller's copy is cloned from the cell
OnceClone(t) ==
    /\ threads[t].at = "clone"
    /\ threads' = [threads EXCEPT ![t].val = registry[threads[t].name].value, ![t].at = "return"]
    /\ UNCHANGED registry

\* the accessor returns the thread's copy
DevReturn(t) ==
    LET n == threads[t].name
    IN  /\ threads[t].at = "return"
        /\ threads' = [threads EXCEPT ![t].got = threads[t].val, ![t].at = "returned"]
        /\ registry' = [registry EXCEPT ![n].first =
                            IF @.some THEN @ ELSE Some(threads[t].val)]

\* the thread takes the keypair and is ready for its next call
DevTake(t) ==
    /\ threads[t].at = "returned"
    /\ threads' = [threads EXCEPT ![t] = IdleThread]
    /\ UNCHANGED registry

NextDev ==
    \/ (\E t \in Threads, n \in DOMAIN registry : DevCall(t, n)) /\ UNCHANGED not_dev
    \/ (\E t \in Threads : OnceGetOrInit(t)) /\ UNCHANGED not_dev
    \/ (\E t \in Threads : DevRunBody(t)) /\ UNCHANGED not_dev
    \/ (\E t \in Threads : OnceWriteSecret(t)) /\ UNCHANGED not_dev
    \/ (\E t \in Threads : OnceWritePoint(t)) /\ UNCHANGED not_dev
    \/ (\E t \in Threads : OncePublish(t)) /\ UNCHANGED not_dev
    \/ (\E t \in Threads : OnceClone(t)) /\ UNCHANGED not_dev
    \/ (\E t \in Threads : DevReturn(t)) /\ UNCHANGED not_dev
    \/ (\E t \in Threads : DevTake(t)) /\ UNCHANGED not_dev

SpecDev == InitDev /\ [][NextDev]_vars

\* C11: under any interleaving of concurrent calls of a dev accessor its body runs
\* at most once, no caller is given a partially initialised keypair, and every
\* call of the accessor, first or later, on any thread, returns the same keypair.
C11_DevComputeOnce ==
    /\ \A n \in DOMAIN registry : registry[n].runs <= 1
    /\ \A t \in Threads :
           threads[t].at = "returned" =>
               /\ from_secret_key(threads[t].got.secret) = Ok(threads[t].got)
               /\ registry[threads[t].name].first = Some(threads[t].got)
               /\ \A u \in Threads :
                      (threads[u].at = "returned" /\ threads[u].name = threads[t].name)
                          => threads[u].got = threads[t].got

\* two threads raced for the first call of alice(); both hold the same keypair
C11_Witness ==
    /\ threads[1].at = "returned" /\ threads[1].name = "alice"
    /\ threads[2].at = "returned" /\ threads[2].name = "alice"
    /\ registry["alice"].runs = 1
    /\ threads[1].got = threads[2].got
    /\ threads[1].got = DevBody("alice").key
    /\ \E n \in DOMAIN registry : n # "alice" /\ registry[n].state = "complete"

\* ------------------------------------------ a held Keypair: SpecReceiver

\* a caller owns one Keypair object and calls its &self methods again and again.
\* issued keeps the first (digest, signature) pair the object's signing returned.

not_receiver == <<held_uri, seen, handed_sig, signer, signed, tamper,
                  registry, threads, fetch, wire>>

InitReceiver ==
    /\ pc = "idle"
    /\ call = NoCall
    /\ held_uri = NoUri
    /\ seen = NeverSeen
    /\ handed_sig = <<>>
    /\ signer = NoKeypair
    /\ signed = <<>>
    /\ tamper = Untampered
    /\ receiver \in Signers
    /\ issued = {}
    /\ registry = [n \in DevNames |-> EmptyCell]
    /\ threads = [t \in Threads |-> IdleThread]
    /\ fetch = NoFetch
    /\ wire = <<>>

\* the digests a caller passes to sign_prehashed
Digests == {blake2_256(m) : m \in Messages} \cup {0, 255}

Issue(digest, signature) ==
    issued' = IF issued = {} THEN {[digest |-> digest, sig |-> signature]} ELSE issued

\* derive writes the child over the receiver
ReceiverDerive_in_place(js) ==
    /\ DeriveCall(receiver, js)
    /\ receiver' = IF derive(receiver, js).ok THEN derive(receiver, js).key ELSE receiver
    /\ UNCHANGED issued

\* receiver.derive(js): &self, the accumulator is a copy of the secret key
ReceiverDerive(js) ==
    /\ DeriveCall(receiver, js)
    /\ UNCHANGED <<receiver, issued>>

ReceiverSign(m) ==
    /\ SignCall(receiver, m)
    /\ Issue(blake2_256(m), sign(receiver, m))
    /\ UNCHANGED receiver

ReceiverSignPrehashed(h) ==
    /\ SignPrehashedCall(receiver, h)
    /\ Issue(h, sign_prehashed(receiver, h))
    /\ UNCHANGED receiver

ReceiverPublicKey ==
    /\ PublicKeyCall(receiver)
    /\ UNCHANGED <<receiver, issued>>

ReceiverSecretKey ==
    /\ SecretKeyCall(receiver)
    /\ UNCHANGED <<receiver, issued>>

NextReceiver ==
    \/ (pc = "idle" /\ \E js \in JunctionLists : ReceiverDerive(js)) /\ UNCHANGED not_receiver
    \/ (pc = "idle" /\ \E m \in Messages : ReceiverSign(m)) /\ UNCHANGED not_receiver
    \/ (pc = "idle" /\ \E h \in Digests : ReceiverSignPrehashed(h)) /\ UNCHANGED not_receiver
    \/ ReceiverPublicKey /\ UNCHANGED not_receiver
    \/ ReceiverSecretKey /\ UNCHANGED not_receiver
    \/ Return /\ UNCHANGED others

SpecReceiver == InitReceiver /\ [][NextReceiver]_vars

\* C12: derive, sign, sign_prehashed, public_key and secret_key leave the receiver
\* as it was when they were called: after k.derive(js), successful or failed,
\* k.secret_key() and k.public_key() are what they were before, and the child is a
\* value of its own.
C12_ReceiverUnchanged ==
    (pc = "returned"
        /\ call.op \in {"derive", "sign", "sign_prehashed", "public_key", "secret_key"})
        => /\ receiver = call.key
           /\ secret_key(receiver) = secret_key(call.key)
           /\ public_key(receiver) = public_key(call.key)

\* a derive with two hard junctions gave a child with another secret, and the
\* receiver is the key it was
C12_Witness ==
    /\ pc = "returned"
    /\ call.op = "derive"
    /\ Len(call.junctions) = 2
    /\ call.ret.ok
    /\ call.ret.key # receiver
    /\ receiver = call.key

\* the digest a returned signing call signed
SignedDigest ==
    IF call.op = "sign" THEN blake2_256(call.message) ELSE call.digest

not_fetch == <<pc, call, held_uri, seen, handed_sig, signer, signed, tamper,
               receiver, issued, registry, threads>>

\* fetch_metadata(client, version): fetch_inner sends its first request
FetchCall(version) ==
    /\ fetch.at = "idle"
    /\ fetch' = [NoFetch EXCEPT !.at = "await versions", !.version = version]
    /\ wire' = <<Request("Metadata_metadata_versions", <<"0", "x">>)>>

\* fetch_inner after its first await: the supported versions, the choice among
\* them, the second request
FetchVersionsReply(reply) ==
    /\ fetch.at = "await versions"
    /\ IF reply.kind # "value"
       THEN /\ fetch' = FallBack(fetch, ReplyError(reply)).fetch
            /\ wire' = wire \o <<Reply(reply)>> \o FallBack(fetch, ReplyError(reply)).sent
       ELSE LET chosen == SelectVersion(fetch.version, reply.val)
            IN  IF chosen.ok
                THEN /\ fetch' = [fetch EXCEPT !.at = "await at_version"]
                     /\ wire' = wire \o <<Reply(reply),
                                   Request("Metadata_metadata_at_version",
                                           VersionParam(chosen.v))>>
                ELSE /\ fetch' = FallBack(fetch, chosen.err).fetch
                     /\ wire' = wire \o <<Reply(reply)>> \o FallBack(fetch, chosen.err).sent

\* fetch_inner after its second await: Option<OpaqueMetadata>
FetchAtVersionReply(reply) ==
    /\ fetch.at = "await at_version"
    /\ IF reply.kind # "value"
       THEN /\ fetch' = FallBack(fetch, ReplyError(reply)).fetch
            /\ wire' = wire \o <<Reply(reply)>> \o FallBack(fetch, ReplyError(reply)).sent
       ELSE IF ~reply.val.some
            THEN LET e == VersionUnavailable(wire[Len(wire)].param)
                 IN  /\ fetch' = FallBack(fetch, e).fetch
                     /\ wire' = wire \o <<Reply(reply)>> \o FallBack(fetch, e).sent
            ELSE /\ fetch' = [fetch EXCEPT !.at = "done",
                                 !.inner = FetchOk(reply.val.val),
                                 !.ret = FetchOk(reply.val.val)]
                 /\ wire' = wire \o <<Reply(reply)>>

\* fetch_inner_legacy after its await
FetchLegacyReply(reply) ==
    /\ fetch.at = "await legacy"
    /\ fetch' = [fetch EXCEPT !.at = "done",
                    !.ret = FallbackResult(fetch.inner, ReplyResult(reply))]
    /\ wire' = wire \o <<Reply(reply)>>

\* the caller takes the result; the client is dropped
FetchTake ==
    /\ fetch.at = "done"
    /\ fetch' = NoFetch
    /\ wire' = <<>>

NextFetch ==
    \/ (\E version \in AskedVersions : FetchCall(version)) /\ UNCHANGED not_fetch
    \/ (\E reply \in FailedReplies \cup {Decoded(l) : l \in SupportedLists} :
            FetchVersionsReply(reply)) /\ UNCHANGED not_fetch
    \/ (\E reply \in FailedReplies \cup {Decoded(None)}
                        \cup {Decoded(Some(b)) : b \in MetadataBytes} :
            FetchAtVersionReply(reply)) /\ UNCHANGED not_fetch
    \/ (\E reply \in FailedReplies \cup {Decoded(b) : b \in MetadataBytes} :
            FetchLegacyReply(reply)) /\ UNCHANGED not_fetch
    \/ FetchTake /\ UNCHANGED not_fetch

SpecFetch == Init /\ [][NextFetch]_vars

\* the positions of the requests of a method on the wire
RequestsOf(method) ==
    {i \in DOMAIN wire : wire[i].dir = "request" /\ wire[i].method = method}

\* the new interface's requests
NewInterfaceMethods == {"Metadata_metadata_versions", "Metadata_metadata_at_version"}

\* the reply at position i carries the metadata of the new interface
CarriesNewMetadata(i) ==
    /\ i \in DOMAIN wire /\ i > 1
    /\ wire[i].dir = "reply"
    /\ wire[i - 1].dir = "request"
    /\ wire[i - 1].method = "Metadata_metadata_at_version"
    /\ wire[i].kind = "value"
    /\ wire[i].val.some

\* fetch_inner has returned an error
NewInterfaceFailed == fetch.inner # Pending /\ ~fetch.inner.ok

\* C15: the legacy request (Metadata_metadata) is sent only after the attempt on
\* the new interface (Metadata_metadata_versions, then
\* Metadata_metadata_at_version) has returned an error; when the new interface
\* succeeds its bytes are returned and no legacy request is sent; when it fails,
\* for whatever reason, fetch_metadata returns what the legacy attempt returns and
\* the first error is dropped.
C15_LegacyOnlyAfterNewFailed ==
    /\ \A i \in RequestsOf("Metadata_metadata") :
           /\ NewInterfaceFailed
           /\ i > 2
           /\ wire[1] = Request("Metadata_metadata_versions", <<"0", "x">>)
           /\ wire[i - 1].dir = "reply"
           /\ ~CarriesNewMetadata(i - 1)
           /\ \A j \in 1..(i - 1) :
                  wire[j].dir = "request" => wire[j].method \in NewInterfaceMethods
    /\ fetch.at = "done" =>
           IF \E i \in DOMAIN wire : CarriesNewMetadata(i)
           THEN /\ fetch.ret = FetchOk(wire[Len(wire)].val.val)
                /\ CarriesNewMetadata(Len(wire))
                /\ RequestsOf("Metadata_metadata") = {}
           ELSE /\ NewInterfaceFailed
                /\ fetch.ret = IF RequestsOf("Metadata_metadata") = {}
                               THEN FetchErr(LegacyOnly14)
                               ELSE ReplyResult(wire[Len(wire)])

\* the node supports the version asked for but holds no metadata for it; the legacy
\* request followed and its reply failed with another error, which is returned
C15_Witness ==
    /\ fetch.at = "done"
    /\ Len(wire) = 6
    /\ wire[4] = Reply(Decoded(None))
    /\ wire[5] = Request("Metadata_metadata", <<"0", "x">>)
    /\ wire[6] = Reply(RpcFailed)
    /\ fetch.inner.err[1] = "Other"
    /\ fetch.ret = FetchErr(<<"RequestError">>)

\* C16: fetch_inner_legacy sends no request unless the version asked for is Latest
\* or Version(14): for Unstable and Version(v), v # 14, Metadata_metadata is never
\* sent and, the new interface having failed, fetch_metadata ends in the legacy
\* interface's error with nothing sent after the failure.
C16_LegacyVersionGuard ==
    /\ RequestsOf("Metadata_metadata") # {} => fetch.version \in {Latest, Version(14)}
    /\ (fetch.version \notin {Latest, Version(14)} /\ NewInterfaceFailed)
           => /\ fetch.at = "done"
              /\ fetch.ret = FetchErr(LegacyOnly14)
              /\ wire[Len(wire)].dir = "reply"

\* Version(15) was asked of a node that supports 15 but holds no metadata for it
C16_Witness ==
    /\ fetch.at = "done"
    /\ fetch.version = Version(15)
    /\ Len(wire) = 4
    /\ wire[2] = Reply(Decoded(<<14, 15>>))
    /\ wire[4] = Reply(Decoded(None))
    /\ fetch.ret = FetchErr(LegacyOnly14)

\* the version a Metadata_metadata_at_version parameter names: 0x, then the hex
\* digits of its bytes, low byte first
ParamVersion(param) ==
    (HexVal(param[3]) * 16 + HexVal(param[4]))
        + 256 * (HexVal(param[5]) * 16 + HexVal(param[6]))

\* the versions of a supported-version list that answer the version asked for: for
\* Latest the largest one other than u32::MAX, for Unstable u32::MAX, for
\* Version(v) v; none when the list has no such version
Wanted(version, list) ==
    LET has == {list[i] : i \in DOMAIN list}
    IN  CASE version.kind = "Latest" ->
                 {m \in has : m # UNSTABLE_METADATA_VERSION
                      /\ \A y \in has : y # UNSTABLE_METADATA_VERSION => y <= m}
          [] version.kind = "Unstable" -> has \cap {UNSTABLE_METADATA_VERSION}
          [] version.kind = "Version" -> has \cap {version.v}

\* C17: once the node has answered with its list of supported versions, fetch_inner
\* asks Metadata_metadata_at_version for the version that answers the one asked
\* for, and only if the list has it; otherwise it returns an error and never sends
\* that request.
C17_VersionSelection ==
    /\ RequestsOf("Metadata_metadata_at_version") \subseteq {3}
    /\ (Len(wire) >= 2 /\ wire[2].kind # "value")
           => RequestsOf("Metadata_metadata_at_version") = {}
    /\ (Len(wire) >= 2 /\ wire[2].kind = "value")
           => LET wanted == Wanted(fetch.version, wire[2].val)
              IN  IF wanted = {}
                  THEN /\ RequestsOf("Metadata_metadata_at_version") = {}
                       /\ NewInterfaceFailed
                       /\ fetch.inner.err[1] = "Other"
                  ELSE /\ wire[3].dir = "request"
                       /\ wire[3].method = "Metadata_metadata_at_version"
                       /\ Len(wire[3].param) = 6
                       /\ wire[3].param[1] = "0" /\ wire[3].param[2] = "x"
                       /\ wanted = {ParamVersion(wire[3].param)}

\* Latest was asked of a node that lists 15, u32::MAX and 14: version 15 is
\* requested, as 0x0f00
C17_Witness ==
    /\ fetch.version = Latest
    /\ Len(wire) = 3
    /\ wire[2] = Reply(Decoded(<<15, UNSTABLE_METADATA_VERSION, 14>>))
    /\ wire[3] = Request("Metadata_metadata_at_version", <<"0", "x", "0", "f", "0", "0">>)

====
